---- MODULE Spec2Model ----
(***************************************************************************)
(* A model of src/bldr/pkg.rs: the version ordering (version_sort,         *)
(* split_version), the Package partial order, and the PackageUpdater        *)
(* actor (init, handle_timeout, handle_cast) with the shared package it     *)
(* reads under a reader/writer lock.                                        *)
(*                                                                          *)
(* Strings are sequences of one-character strings.  A u64 is kept as its    *)
(* canonical decimal digit sequence (no leading zeros, <<>> for 0): the     *)
(* values of interest exceed the range of the checker's integers.           *)
(***************************************************************************)
EXTENDS Integers, Sequences, FiniteSets, TLC

VARIABLES
    a_version,      \* version_sort: first argument
    b_version,      \* version_sort: second argument
    c_version,      \* a third version string, for the order laws
    sorted,         \* results of version_sort, or NotRun before the call
    status,         \* UpdaterState.status
    shared_package, \* the Package behind UpdaterState.package (Arc<RwLock<Package>>)
    readers,        \* number of read guards held on the RwLock
    timeout,        \* the actor's pending timeout: None or Some(TIMEOUT_MS)
    pc,             \* where the updater task is
    latest,         \* handle_timeout's local `latest`
    mailbox,        \* casts sent to the updater, not yet handled
    outbox,         \* messages the updater sent to its owner (tx), not yet consumed
    log,            \* the calls of the current (or last) handler, in order, each with its result
    args,           \* a call of one of the other operations: its name and arguments
    ret,            \* what that call returned and did, or NotCalled before it
    fs              \* the files and links the operations read and write

vars == <<a_version, b_version, c_version, sorted, status, shared_package,
          readers, timeout, pc, latest, mailbox, outbox, log, args, ret, fs>>

versionVars == <<a_version, b_version, c_version, sorted>>

updaterVars == <<status, shared_package, readers, timeout, pc, latest,
                 mailbox, outbox, log>>

callVars == <<args, ret, fs>>

\* The value of `ret` before the call.
NotCalled == [done |-> FALSE]

\* The values of `args` and `fs` where no operation is called.
NoCall == [op |-> "none"]

NoFs == [none |-> TRUE]

\* No operation other than those of the specification at hand is called.
CallsIdle == args = NoCall /\ ret = NotCalled /\ fs = NoFs

\* Option<u64>, the actor's timeout: None, or Some(ms).
None == [some |-> FALSE, ms |-> 0]

SomeMs(ms) == [some |-> TRUE, ms |-> ms]

\* TIMEOUT_MS, the tick interval in milliseconds.
TIMEOUT_MS == 60000

\* No package: the value of a package variable that holds nothing.
NoPackage == [derivation |-> "", name |-> "", version |-> <<>>, release |-> <<>>]

\* The value of `sorted` before version_sort has been called.
NotRun == [done |-> FALSE]

----------------------------------------------------------------------------
(* Characters and strings *)

Digits == {"0", "1", "2", "3", "4", "5", "6", "7", "8", "9"}

\* The characters version strings are drawn from: two digits, the two
\* separators of the grammar, and a letter.
Alphabet == {"0", "1", ".", "-", "a"}

\* Byte values of the characters, as String::cmp compares them.
ByteTable ==
    ("-" :> 45) @@ ("." :> 46) @@ ("a" :> 97) @@
    ("0" :> 48) @@ ("1" :> 49) @@ ("2" :> 50) @@ ("3" :> 51) @@ ("4" :> 52) @@
    ("5" :> 53) @@ ("6" :> 54) @@ ("7" :> 55) @@ ("8" :> 56) @@ ("9" :> 57)

Byte(c) == ByteTable[c]

Min(S) == CHOOSE x \in S : \A y \in S : x <= y

\* Ordering of two integers.
IntCmp(x, y) == IF x < y THEN "Less" ELSE IF x > y THEN "Greater" ELSE "Equal"

\* str::cmp / String::cmp: lexicographic by byte, a proper prefix is Less.
StrCmp(s, t) ==
    LET diff == {i \in 1..Min({Len(s), Len(t)}) : s[i] # t[i]}
    IN  IF diff = {} THEN IntCmp(Len(s), Len(t))
        ELSE IntCmp(Byte(s[Min(diff)]), Byte(t[Min(diff)]))

\* str::split('.'): the pieces between the separators, empty pieces kept.
RECURSIVE Split(_, _)
Split(s, sep) ==
    LET at == {i \in 1..Len(s) : s[i] = sep}
    IN  IF at = {} THEN <<s>>
        ELSE <<SubSeq(s, 1, Min(at) - 1)>> \o Split(SubSeq(s, Min(at) + 1, Len(s)), sep)

----------------------------------------------------------------------------
(* Results and options *)

Ok(v) == [ok |-> TRUE, val |-> v]

Err(kind) == [ok |-> FALSE, val |-> kind]

Some(v) == [some |-> TRUE, val |-> v]

NoneOpt == [some |-> FALSE, val |-> <<>>]

----------------------------------------------------------------------------
(* u64 parsing and comparison *)

\* u64::MAX, 18446744073709551615, as digits.
U64MaxDigits ==
    <<"1", "8", "4", "4", "6", "7", "4", "4", "0", "7",
      "3", "7", "0", "9", "5", "5", "1", "6", "1", "5">>

RECURSIVE StripZeros(_)
StripZeros(s) ==
    IF s # <<>> /\ s[1] = "0" THEN StripZeros(Tail(s)) ELSE s

\* Whether a canonical digit sequence is a value above u64::MAX.
Overflows(n) ==
    \/ Len(n) > Len(U64MaxDigits)
    \/ Len(n) = Len(U64MaxDigits) /\ \E i \in 1..Len(n) :
          /\ \A j \in 1..(i - 1) : n[j] = U64MaxDigits[j]
          /\ Byte(n[i]) > Byte(U64MaxDigits[i])

\* The error kind try! makes of a std::num::ParseIntError.  The conversion is
\* defined outside pkg.rs; the specification has a component that does not
\* parse fail with BadVersion.
ParseIntErrorKind == "BadVersion"

\* str::parse::<u64>: the empty string, a non-digit and a value above u64::MAX
\* are errors.
parse_u64(s) ==
    IF s = <<>> \/ (\E i \in 1..Len(s) : s[i] \notin Digits) \/ Overflows(StripZeros(s))
    THEN Err(ParseIntErrorKind)
    ELSE Ok(StripZeros(s))

\* u64::cmp on canonical digit sequences: more digits is the larger number,
\* equally many digits compare digit by digit.
U64Cmp(x, y) ==
    IF Len(x) # Len(y) THEN IntCmp(Len(x), Len(y)) ELSE StrCmp(x, y)

----------------------------------------------------------------------------
(* split_version and version_sort *)

\* The character class [\d\.] of the regex.
IsVersionChar(c) == c \in Digits \/ c = "."

\* split_version: the leftmost match of the unanchored regex ([\d\.]+)(-.+)?.
\* Group 1 is the first maximal run of digits and dots anywhere in the string;
\* group 2 is the rest of the string when the run is followed by '-' and at
\* least one more character.  The extension is group 2 without its '-'.  The
\* version number is split on '.'.  No match (no digit or dot at all) is
\* BadVersion.  (The alphabet has no newline, which '.' would not match.)
split_version(version) ==
    LET at == {i \in 1..Len(version) : IsVersionChar(version[i])}
    IN  IF at = {} THEN Err("BadVersion")
        ELSE
          LET first == Min(at)
              stop == Min({i \in first..Len(version) :
                             i = Len(version) \/ ~IsVersionChar(version[i + 1])})
              version_number == SubSeq(version, first, stop)
              extension ==
                  IF stop + 2 <= Len(version) /\ version[stop + 1] = "-"
                  THEN Some(SubSeq(version, stop + 2, Len(version)))
                  ELSE NoneOpt
          IN  Ok([parts |-> Split(version_number, "."), extension |-> extension])

\* A faulty version_walk: the loop breaks as soon as either side is exhausted,
\* so a missing component is not compared as 0.
RECURSIVE version_walk_either(_, _, _)
version_walk_either(a_parts, b_parts, i) ==
    LET a_exhausted == i > Len(a_parts)
        b_exhausted == i > Len(b_parts)
        a_num == IF a_exhausted THEN Ok(<<>>) ELSE parse_u64(a_parts[i])
        b_num == IF b_exhausted THEN Ok(<<>>) ELSE parse_u64(b_parts[i])
    IN  IF ~a_num.ok THEN a_num
        ELSE IF ~b_num.ok THEN b_num
        ELSE IF a_exhausted \/ b_exhausted THEN Ok("Break")
        ELSE CASE U64Cmp(a_num.val, b_num.val) = "Greater" -> Ok("Greater")
               [] U64Cmp(a_num.val, b_num.val) = "Less" -> Ok("Less")
               [] OTHER -> version_walk_either(a_parts, b_parts, i + 1)

\* The loop of version_sort from position i: each side's next component is
\* parsed when the loop reaches it (a's before b's), an exhausted side counts
\* as 0, and the first difference returns.  "Break" is the loop's break.
RECURSIVE version_walk(_, _, _)
version_walk(a_parts, b_parts, i) ==
    LET a_exhausted == i > Len(a_parts)
        b_exhausted == i > Len(b_parts)
        a_num == IF a_exhausted THEN Ok(<<>>) ELSE parse_u64(a_parts[i])
        b_num == IF b_exhausted THEN Ok(<<>>) ELSE parse_u64(b_parts[i])
    IN  IF ~a_num.ok THEN a_num
        ELSE IF ~b_num.ok THEN b_num
        ELSE IF a_exhausted /\ b_exhausted THEN Ok("Break")
        ELSE CASE U64Cmp(a_num.val, b_num.val) = "Greater" -> Ok("Greater")
               [] U64Cmp(a_num.val, b_num.val) = "Less" -> Ok("Less")
               [] OTHER -> version_walk(a_parts, b_parts, i + 1)

\* A faulty extension_sort: Less whenever exactly one side has an extension,
\* whichever side it is.
extension_sort_one_sided(a_extension, b_extension) ==
    IF a_extension.some # b_extension.some THEN "Less"
    ELSE IF ~a_extension.some /\ ~b_extension.some THEN "Equal"
    ELSE StrCmp(a_extension.val, b_extension.val)

\* The tail of version_sort: the extensions decide equal version numbers.
extension_sort(a_extension, b_extension) ==
    IF a_extension.some /\ ~b_extension.some THEN "Less"
    ELSE IF ~a_extension.some /\ b_extension.some THEN "Greater"
    ELSE IF ~a_extension.some /\ ~b_extension.some THEN "Equal"
    ELSE StrCmp(a_extension.val, b_extension.val)

version_sort(a, b) ==
    LET sa == split_version(a)
        sb == split_version(b)
    IN  IF ~sa.ok THEN sa
        ELSE IF ~sb.ok THEN sb
        ELSE
          LET walked == version_walk(sa.val.parts, sb.val.parts, 1)
          IN  IF ~walked.ok \/ walked.val # "Break" THEN walked
              ELSE Ok(extension_sort(sa.val.extension, sb.val.extension))

----------------------------------------------------------------------------
(* Inputs of the version specifications *)

\* Longest version string drawn from the alphabet.
MaxVerLen == 3

\* Most numeric components of a version string in a triple.
MaxOrdParts == 2

Strings(n) == UNION {[1..k -> Alphabet] : k \in 0..n}

\* u64::MAX + 1, 18446744073709551616, as digits.
U64OverDigits == [U64MaxDigits EXCEPT ![20] = "6"]

\* Two long version strings: the largest component a u64 holds, and the next.
BigVersions == {U64MaxDigits, U64OverDigits}

VersionInputs == Strings(MaxVerLen) \cup BigVersions

\* The updater does not run in the version specifications.
UpdaterIdle ==
    /\ status = "Stopped"
    /\ shared_package = NoPackage
    /\ readers = 0
    /\ timeout = None
    /\ pc = "off"
    /\ latest = NoPackage
    /\ mailbox = <<>>
    /\ outbox = <<>>
    /\ log = <<>>

\* A call version_sort(a_version, b_version) on any two strings.
InitSort ==
    /\ a_version \in VersionInputs
    /\ b_version \in VersionInputs
    /\ c_version = <<>>
    /\ sorted = NotRun
    /\ UpdaterIdle
    /\ CallsIdle

Sort ==
    /\ ~sorted.done
    /\ sorted' = [done |-> TRUE, ab |-> version_sort(a_version, b_version)]
    /\ UNCHANGED <<a_version, b_version, c_version>>
    /\ UNCHANGED updaterVars
    /\ UNCHANGED callVars

NextSort == Sort

SpecSort == InitSort /\ [][NextSort]_vars

\* The grammar's strings with up to MaxOrdParts components, each 0 or 1, and
\* no extension or one of two.
RECURSIVE NumbersOf(_)
NumbersOf(k) ==
    IF k = 1 THEN {<<"0">>, <<"1">>}
    ELSE {n \o <<".">> \o p : n \in NumbersOf(k - 1), p \in {<<"0">>, <<"1">>}}

OrderExtensions == {<<>>, <<"-", "0">>, <<"-", "a">>}

OrderInputs ==
    {n \o e : n \in UNION {NumbersOf(k) : k \in 1..MaxOrdParts}, e \in OrderExtensions}
        \cup BigVersions

\* Calls of version_sort on three strings of the grammar.
InitOrder ==
    /\ a_version \in OrderInputs
    /\ b_version \in OrderInputs
    /\ c_version \in OrderInputs
    /\ sorted = NotRun
    /\ UpdaterIdle
    /\ CallsIdle

SortAll ==
    /\ ~sorted.done
    /\ sorted' = [done |-> TRUE,
                  aa |-> version_sort(a_version, a_version),
                  ab |-> version_sort(a_version, b_version),
                  ba |-> version_sort(b_version, a_version),
                  bc |-> version_sort(b_version, c_version),
                  ac |-> version_sort(a_version, c_version)]
    /\ UNCHANGED <<a_version, b_version, c_version>>
    /\ UNCHANGED updaterVars
    /\ UNCHANGED callVars

NextOrder == SortAll

SpecOrder == InitOrder /\ [][NextOrder]_vars

----------------------------------------------------------------------------
(* The grammar digits(.digits)*(-extension)? and the reference comparison *)

DashesOf(v) == {i \in 1..Len(v) : v[i] = "-"}

\* The part of v before its first '-'.
NumberOf(v) ==
    IF DashesOf(v) = {} THEN v ELSE SubSeq(v, 1, Min(DashesOf(v)) - 1)

\* The part of v after its first '-', if it has one.
ExtensionOf(v) ==
    IF DashesOf(v) = {} THEN NoneOpt
    ELSE Some(SubSeq(v, Min(DashesOf(v)) + 1, Len(v)))

\* digits(.digits)*: digits and dots, no empty component.
IsNumber(n) ==
    /\ n # <<>>
    /\ \A i \in 1..Len(n) : n[i] \in Digits \/ n[i] = "."
    /\ n[1] # "." /\ n[Len(n)] # "."
    /\ \A i \in 1..(Len(n) - 1) : ~(n[i] = "." /\ n[i + 1] = ".")

\* v matches digits(.digits)*(-extension)?, the extension being non-empty.
MatchesGrammar(v) ==
    /\ IsNumber(NumberOf(v))
    /\ ExtensionOf(v).some => ExtensionOf(v).val # <<>>

\* Position of the k-th '.' of n; 0 for k = 0, Len(n) + 1 past the last.
DotAt(n, k) ==
    LET dots == {i \in 1..Len(n) : n[i] = "."}
    IN  IF k = 0 THEN 0
        ELSE IF k > Cardinality(dots) THEN Len(n) + 1
        ELSE CHOOSE p \in dots : Cardinality({i \in dots : i < p}) = k - 1

ComponentCount(v) == Cardinality({i \in 1..Len(NumberOf(v)) : NumberOf(v)[i] = "."}) + 1

\* The value of the k-th numeric component of v (canonical digits), 0 when v
\* has fewer than k components.
ComponentValue(v, k) ==
    IF k > ComponentCount(v) THEN <<>>
    ELSE StripZeros(SubSeq(NumberOf(v), DotAt(NumberOf(v), k - 1) + 1,
                           DotAt(NumberOf(v), k) - 1))

\* x < y for two natural numbers given as canonical digits.
NatLess(x, y) ==
    \/ Len(x) < Len(y)
    \/ Len(x) = Len(y) /\ \E i \in 1..Len(x) :
          /\ \A j \in 1..(i - 1) : x[j] = y[j]
          /\ Byte(x[i]) < Byte(y[i])

\* Every numeric component of v is at most u64::MAX.
FitsU64(v) == \A k \in 1..ComponentCount(v) : ~Overflows(ComponentValue(v, k))

\* The reference comparison of two strings of the grammar.
ReferenceCompare(a, b) ==
    LET n == IF ComponentCount(a) > ComponentCount(b)
             THEN ComponentCount(a) ELSE ComponentCount(b)
        differ == {k \in 1..n : ComponentValue(a, k) # ComponentValue(b, k)}
    IN  IF differ # {}
        THEN IF NatLess(ComponentValue(a, Min(differ)), ComponentValue(b, Min(differ)))
             THEN "Less" ELSE "Greater"
        ELSE IF ~ExtensionOf(a).some /\ ~ExtensionOf(b).some THEN "Equal"
        ELSE IF ~ExtensionOf(a).some THEN "Greater"
        ELSE IF ~ExtensionOf(b).some THEN "Less"
        ELSE StrCmp(ExtensionOf(a).val, ExtensionOf(b).val)

Reverse(ord) ==
    CASE ord = "Less" -> "Greater"
      [] ord = "Greater" -> "Less"
      [] OTHER -> ord

----------------------------------------------------------------------------
(* Claims about version_sort *)

\* C8 as stated: for every pair of strings of the grammar, version_sort
\* returns the reference comparison.
C8_EveryValidPair ==
    (sorted.done /\ MatchesGrammar(a_version) /\ MatchesGrammar(b_version))
        => sorted.ab = Ok(ReferenceCompare(a_version, b_version))

\* C8 amended: for every pair of strings of the grammar whose numeric
\* components each fit in a u64, version_sort returns the reference
\* comparison: components compared pairwise from the left with a missing
\* component as 0, then no extension above an extension, then the
\* extensions lexicographically.
C8_ReferenceCompare ==
    (/\ sorted.done
     /\ MatchesGrammar(a_version) /\ MatchesGrammar(b_version)
     /\ FitsU64(a_version) /\ FitsU64(b_version))
        => sorted.ab = Ok(ReferenceCompare(a_version, b_version))

\* C8 witness: "1.0" against "1-a": the missing component counts as 0 and
\* the side without extension is Greater.
C8_Witness ==
    /\ sorted.done
    /\ a_version = <<"1", ".", "0">>
    /\ b_version = <<"1", "-", "a">>
    /\ sorted.ab = Ok("Greater")

\* C10 as stated: version_sort fails with BadVersion whenever either string
\* does not match the grammar (and so returns an Ordering only when both do).
C10_BadVersionOffGrammar ==
    (sorted.done /\ ~(MatchesGrammar(a_version) /\ MatchesGrammar(b_version)))
        => sorted.ab = Err("BadVersion")

\* C9 as stated: over strings of the grammar, version_sort(a, a) is Equal,
\* version_sort(a, b) is the reverse of version_sort(b, a), and two Less (two
\* Greater) results chain.
C9_OrderLaws ==
    sorted.done =>
        /\ sorted.aa = Ok("Equal")
        /\ sorted.ab.ok => sorted.ba = Ok(Reverse(sorted.ab.val))
        /\ \A o \in {"Less", "Greater"} :
              (sorted.ab = Ok(o) /\ sorted.bc = Ok(o)) => sorted.ac = Ok(o)

\* C9 amended: over strings of the grammar, version_sort(a, a) is Equal when
\* the numeric components of a each fit in a u64 and an error otherwise;
\* version_sort(b, a) is the reverse of version_sort(a, b) whenever that is an
\* ordering, and fails whenever that fails; two Less (two Greater) results
\* chain.
C9_OrderLawsU64 ==
    sorted.done =>
        /\ FitsU64(a_version) => sorted.aa = Ok("Equal")
        /\ ~FitsU64(a_version) => ~sorted.aa.ok
        /\ sorted.ab.ok => sorted.ba = Ok(Reverse(sorted.ab.val))
        /\ ~sorted.ab.ok => ~sorted.ba.ok
        /\ \A o \in {"Less", "Greater"} :
              (sorted.ab = Ok(o) /\ sorted.bc = Ok(o)) => sorted.ac = Ok(o)

\* C9 witness: a chain "0.1" < "1-a" < "1" decided once by a component and
\* once by the extension.
C9_Witness ==
    /\ sorted.done
    /\ a_version = <<"0", ".", "1">>
    /\ b_version = <<"1", "-", "a">>
    /\ c_version = <<"1">>
    /\ sorted.ab = Ok("Less") /\ sorted.bc = Ok("Less") /\ sorted.ac = Ok("Less")
    /\ sorted.ba = Ok("Greater") /\ sorted.aa = Ok("Equal")

----------------------------------------------------------------------------
(* Package and its partial order *)

Package(derivation, name, version, release) ==
    [derivation |-> derivation, name |-> name, version |-> version, release |-> release]

\* partial_cmp had it also refused packages of different derivations.
partial_cmp_derivation(self, other) ==
    IF self.name # other.name \/ self.derivation # other.derivation THEN NoneOpt
    ELSE LET ord == version_sort(self.version, other.version)
         IN  IF ~ord.ok THEN NoneOpt
             ELSE IF ord.val = "Greater" THEN Some("Greater")
             ELSE IF ord.val = "Less" THEN Some("Less")
             ELSE Some(StrCmp(self.release, other.release))

\* impl PartialOrd for Package: no ordering across names or on a version
\* version_sort rejects; the versions decide, then the releases as strings.
\* The derivations are not read.
partial_cmp(self, other) ==
    IF self.name # other.name THEN NoneOpt
    ELSE LET ord == version_sort(self.version, other.version)
         IN  IF ~ord.ok THEN NoneOpt
             ELSE IF ord.val = "Greater" THEN Some("Greater")
             ELSE IF ord.val = "Less" THEN Some("Less")
             ELSE Some(StrCmp(self.release, other.release))

\* latest > *package: PartialOrd::gt.
gt(self, other) == partial_cmp(self, other) = Some("Greater")

----------------------------------------------------------------------------
(* The PackageUpdater actor *)

\* Most casts waiting in the updater's mailbox.
MaxMailbox == 2

\* Most messages waiting in the owner's channel.
MaxOutbox == 2

\* The packages of the updater specification: web at version 1 in two
\* releases, web at version 1.1, and a package of another name.
Packages ==
    {Package("acme", "web", <<"1">>, <<"1">>),
     Package("acme", "web", <<"1">>, <<"2">>),
     Package("acme", "web", <<"1", ".", "1">>, <<"1">>),
     Package("acme", "db", <<"1", ".", "1">>, <<"1">>)}

\* enum UpdaterMessage; Update carries a package.
Run == <<"Run">>

Update(package) == <<"Update", package>>

OtherMessages == {<<"Ok">>, <<"Stop">>, Update(CHOOSE p \in Packages : p.name = "db")}

UpdaterMessage == {Run} \cup OtherMessages

\* The steps of handle_timeout, from taking the read guard to its return.
InTick == {"show", "fetch", "verify", "unpack"}

\* UpdaterState::new and the state before the actor's init: status Stopped,
\* no timeout, nothing sent or received.
Init ==
    /\ a_version = <<>>
    /\ b_version = <<>>
    /\ c_version = <<>>
    /\ sorted = NotRun
    /\ status = "Stopped"
    /\ shared_package \in Packages
    /\ readers = 0
    /\ timeout = None
    /\ pc = "new"
    /\ latest = NoPackage
    /\ mailbox = <<>>
    /\ outbox = <<>>
    /\ log = <<>>
    /\ CallsIdle

\* GenServer::init: status Running, Ok(Some(TIMEOUT_MS)).
init ==
    /\ pc = "new"
    /\ status' = "Running"
    /\ timeout' = SomeMs(TIMEOUT_MS)
    /\ pc' = "idle"
    /\ log' = <<<<"init", "Ok">>>>
    /\ UNCHANGED <<shared_package, readers, latest, mailbox, outbox>>
    /\ UNCHANGED versionVars
    /\ UNCHANGED callVars

\* A return of handle_timeout with HandleResult::NoReply(next): the read
\* guard is dropped and the actor's timeout becomes next.
NoReply(next) ==
    /\ pc' = "idle"
    /\ readers' = readers - 1
    /\ timeout' = next

\* A panic (unwrap on Err) in handle_timeout: the read guard is dropped as the
\* stack unwinds and the updater task ends.
Panic ==
    /\ pc' = "dead"
    /\ readers' = readers - 1
    /\ UNCHANGED timeout

\* handle_timeout, entry: the pending timeout expires with the task idle and
\* the handler takes the read guard on the shared package.
handle_timeout ==
    /\ pc = "idle"
    /\ timeout = SomeMs(TIMEOUT_MS)
    /\ Len(outbox) < MaxOutbox
    /\ readers' = readers + 1
    /\ pc' = "show"
    /\ latest' = NoPackage
    /\ log' = <<<<"handle_timeout", status>>>>
    /\ UNCHANGED <<status, shared_package, timeout, mailbox, outbox>>
    /\ UNCHANGED versionVars
    /\ UNCHANGED callVars

\* repo::client::show_package fails: NoReply(Some(TIMEOUT_MS)).
show_package_err ==
    /\ pc = "show"
    /\ log' = Append(log, <<"show_package", "Err">>)
    /\ NoReply(SomeMs(TIMEOUT_MS))
    /\ UNCHANGED <<status, shared_package, latest, mailbox, outbox>>
    /\ UNCHANGED versionVars
    /\ UNCHANGED callVars

\* A faulty show_package_ok: the handler goes on to the fetch when the package
\* found is greater than or equal to the shared package.
show_package_ok_ge ==
    /\ pc = "show"
    /\ \E found \in Packages :
          /\ latest' = found
          /\ log' = Append(log, <<"show_package", "Ok">>)
          /\ IF partial_cmp(found, shared_package) \in {Some("Greater"), Some("Equal")}
             THEN pc' = "fetch" /\ UNCHANGED <<readers, timeout>>
             ELSE NoReply(SomeMs(TIMEOUT_MS))
    /\ UNCHANGED <<status, shared_package, mailbox, outbox>>
    /\ UNCHANGED versionVars
    /\ UNCHANGED callVars

\* show_package_ok had the handler compared a copy of the shared package and
\* dropped the read guard before the fetch.
show_package_ok_unlock ==
    /\ pc = "show"
    /\ \E found \in Packages :
          /\ latest' = found
          /\ log' = Append(log, <<"show_package", "Ok">>)
          /\ IF gt(found, shared_package)
             THEN pc' = "fetch" /\ readers' = readers - 1 /\ UNCHANGED timeout
             ELSE NoReply(SomeMs(TIMEOUT_MS))
    /\ UNCHANGED <<status, shared_package, mailbox, outbox>>
    /\ UNCHANGED versionVars
    /\ UNCHANGED callVars

\* repo::client::show_package returns a package: the handler goes on to the
\* fetch if it is greater than the shared package, and returns
\* NoReply(Some(TIMEOUT_MS)) if not.
show_package_ok ==
    /\ pc = "show"
    /\ \E found \in Packages :
          /\ latest' = found
          /\ log' = Append(log, <<"show_package", "Ok">>)
          /\ IF gt(found, shared_package)
             THEN pc' = "fetch" /\ UNCHANGED <<readers, timeout>>
             ELSE NoReply(SomeMs(TIMEOUT_MS))
    /\ UNCHANGED <<status, shared_package, mailbox, outbox>>
    /\ UNCHANGED versionVars
    /\ UNCHANGED callVars

\* repo::client::fetch_package_exact fails: NoReply(Some(TIMEOUT_MS)).
fetch_package_exact_err ==
    /\ pc = "fetch"
    /\ log' = Append(log, <<"fetch_package_exact", "Err">>)
    /\ NoReply(SomeMs(TIMEOUT_MS))
    /\ UNCHANGED <<status, shared_package, latest, mailbox, outbox>>
    /\ UNCHANGED versionVars
    /\ UNCHANGED callVars

\* repo::client::fetch_package_exact returns the archive.
fetch_package_exact_ok ==
    /\ pc = "fetch"
    /\ log' = Append(log, <<"fetch_package_exact", "Ok">>)
    /\ pc' = "verify"
    /\ UNCHANGED <<status, shared_package, readers, timeout, latest, mailbox, outbox>>
    /\ UNCHANGED versionVars
    /\ UNCHANGED callVars

\* archive.verify().unwrap() on Err: the handler panics.
verify_err ==
    /\ pc = "verify"
    /\ log' = Append(log, <<"verify", "Err">>)
    /\ Panic
    /\ UNCHANGED <<status, shared_package, latest, mailbox, outbox>>
    /\ UNCHANGED versionVars
    /\ UNCHANGED callVars

\* archive.verify().unwrap() on Ok.
verify_ok ==
    /\ pc = "verify"
    /\ log' = Append(log, <<"verify", "Ok">>)
    /\ pc' = "unpack"
    /\ UNCHANGED <<status, shared_package, readers, timeout, latest, mailbox, outbox>>
    /\ UNCHANGED versionVars
    /\ UNCHANGED callVars

\* archive.unpack().unwrap() on Err: the handler panics.
unpack_err ==
    /\ pc = "unpack"
    /\ log' = Append(log, <<"unpack", "Err">>)
    /\ Panic
    /\ UNCHANGED <<status, shared_package, latest, mailbox, outbox>>
    /\ UNCHANGED versionVars
    /\ UNCHANGED callVars

\* A faulty unpack_ok: the branch returns NoReply(Some(TIMEOUT_MS)).
unpack_ok_rearm ==
    /\ pc = "unpack"
    /\ log' = log \o <<<<"unpack", "Ok">>, <<"send", "Update">>>>
    /\ status' = "Stopped"
    /\ outbox' = Append(outbox, Update(latest))
    /\ NoReply(SomeMs(TIMEOUT_MS))
    /\ UNCHANGED <<shared_package, latest, mailbox>>
    /\ UNCHANGED versionVars
    /\ UNCHANGED callVars

\* A faulty unpack_ok: the branch also stores latest in the shared package.
unpack_ok_promote ==
    /\ pc = "unpack"
    /\ log' = log \o <<<<"unpack", "Ok">>, <<"send", "Update">>>>
    /\ status' = "Stopped"
    /\ outbox' = Append(outbox, Update(latest))
    /\ shared_package' = latest
    /\ NoReply(None)
    /\ UNCHANGED <<latest, mailbox>>
    /\ UNCHANGED versionVars
    /\ UNCHANGED callVars

\* archive.unpack().unwrap() on Ok, and the rest of the branch: status
\* Stopped, Update(latest) sent to the owner, NoReply(None).
unpack_ok ==
    /\ pc = "unpack"
    /\ log' = log \o <<<<"unpack", "Ok">>, <<"send", "Update">>>>
    /\ status' = "Stopped"
    /\ outbox' = Append(outbox, Update(latest))
    /\ NoReply(None)
    /\ UNCHANGED <<shared_package, latest, mailbox>>
    /\ UNCHANGED versionVars
    /\ UNCHANGED callVars

\* A faulty handle_cast: Run also sets status Running.
handle_cast_run_status ==
    /\ pc = "idle"
    /\ mailbox # <<>>
    /\ LET msg == Head(mailbox)
       IN  /\ timeout' = IF msg = Run THEN SomeMs(TIMEOUT_MS)
                         ELSE IF status = "Running" THEN SomeMs(TIMEOUT_MS) ELSE None
           /\ status' = IF msg = Run THEN "Running" ELSE status
           /\ log' = <<<<"handle_cast", msg[1]>>>>
    /\ mailbox' = Tail(mailbox)
    /\ UNCHANGED <<shared_package, readers, pc, latest, outbox>>
    /\ UNCHANGED versionVars
    /\ UNCHANGED callVars

\* A faulty handle_cast: every message gives NoReply(Some(TIMEOUT_MS)).
handle_cast_always ==
    /\ pc = "idle"
    /\ mailbox # <<>>
    /\ timeout' = SomeMs(TIMEOUT_MS)
    /\ log' = <<<<"handle_cast", Head(mailbox)[1]>>>>
    /\ mailbox' = Tail(mailbox)
    /\ UNCHANGED <<status, shared_package, readers, pc, latest, outbox>>
    /\ UNCHANGED versionVars
    /\ UNCHANGED callVars

\* A faulty handle_cast: only Run gives NoReply(Some(TIMEOUT_MS)); any other
\* message gives NoReply(None) whatever the status.
handle_cast_run_only ==
    /\ pc = "idle"
    /\ mailbox # <<>>
    /\ LET msg == Head(mailbox)
       IN  /\ timeout' = IF msg = Run THEN SomeMs(TIMEOUT_MS) ELSE None
           /\ log' = <<<<"handle_cast", msg[1]>>>>
    /\ mailbox' = Tail(mailbox)
    /\ UNCHANGED <<status, shared_package, readers, pc, latest, outbox>>
    /\ UNCHANGED versionVars
    /\ UNCHANGED callVars

\* handle_cast on the next cast: Run gives NoReply(Some(TIMEOUT_MS)); any
\* other message gives that when Running and NoReply(None) when Stopped.
handle_cast ==
    /\ pc = "idle"
    /\ mailbox # <<>>
    /\ LET msg == Head(mailbox)
       IN  /\ timeout' = IF msg = Run THEN SomeMs(TIMEOUT_MS)
                         ELSE IF status = "Running" THEN SomeMs(TIMEOUT_MS) ELSE None
           /\ log' = <<<<"handle_cast", msg[1]>>>>
    /\ mailbox' = Tail(mailbox)
    /\ UNCHANGED <<status, shared_package, readers, pc, latest, outbox>>
    /\ UNCHANGED versionVars
    /\ UNCHANGED callVars

\* PackageUpdater::run: actor.cast(UpdaterMessage::Run).
run ==
    /\ pc \notin {"new", "dead"}
    /\ Len(mailbox) < MaxMailbox
    /\ mailbox' = Append(mailbox, Run)
    /\ UNCHANGED <<status, shared_package, readers, timeout, pc, latest, outbox, log>>
    /\ UNCHANGED versionVars
    /\ UNCHANGED callVars

\* A cast of any of the other messages to the actor.
cast ==
    /\ pc \notin {"new", "dead"}
    /\ Len(mailbox) < MaxMailbox
    /\ \E msg \in OtherMessages : mailbox' = Append(mailbox, msg)
    /\ UNCHANGED <<status, shared_package, readers, timeout, pc, latest, outbox, log>>
    /\ UNCHANGED versionVars
    /\ UNCHANGED callVars

\* The owner receives Update(package) and promotes the package: it takes the
\* write lock, which no reader may hold, and replaces the shared package.
owner_update ==
    /\ outbox # <<>>
    /\ readers = 0
    /\ shared_package' = Head(outbox)[2]
    /\ outbox' = Tail(outbox)
    /\ UNCHANGED <<status, readers, timeout, pc, latest, mailbox, log>>
    /\ UNCHANGED versionVars
    /\ UNCHANGED callVars

Next ==
    \/ init
    \/ handle_timeout
    \/ show_package_err
    \/ show_package_ok
    \/ fetch_package_exact_err
    \/ fetch_package_exact_ok
    \/ verify_err
    \/ verify_ok
    \/ unpack_err
    \/ unpack_ok
    \/ handle_cast
    \/ run
    \/ cast
    \/ owner_update

Spec == Init /\ [][Next]_vars

----------------------------------------------------------------------------
(* Claims about the updater *)

Range(s) == {s[i] : i \in 1..Len(s)}

\* The step is handle_cast taking msg off the mailbox.
Handled(msg) == Len(mailbox') < Len(mailbox) /\ Head(mailbox) = msg

\* The step makes the call named `call`, with result `result`.
Called(call, result) ==
    /\ log' # log
    /\ <<call, result>> \in Range(log')
    /\ <<call, result>> \notin Range(log)

\* The calls of a tick entered in status `entry` that installs an update.
UpdateLog(entry) ==
    <<<<"handle_timeout", entry>>, <<"show_package", "Ok">>,
      <<"fetch_package_exact", "Ok">>, <<"verify", "Ok">>, <<"unpack", "Ok">>,
      <<"send", "Update">>>>

C2_StayRunning ==
    [][(/\ status = "Running"
        /\ pc \in InTick
        /\ \/ Called("show_package", "Err")
           \/ Called("show_package", "Ok") /\ ~gt(latest', shared_package)
           \/ Called("fetch_package_exact", "Err"))
          => /\ pc' = "idle"
             /\ status' = "Running"
             /\ timeout' = SomeMs(TIMEOUT_MS)
             /\ outbox' = outbox
             /\ <<"send", "Update">> \notin Range(log')]_vars

\* C2 witness: a Running updater back idle after a tick that found a package
\* it cannot compare with the shared one.
C2_Witness ==
    /\ pc = "idle"
    /\ status = "Running"
    /\ timeout = SomeMs(TIMEOUT_MS)
    /\ log = <<<<"handle_timeout", "Running">>, <<"show_package", "Ok">>>>
    /\ partial_cmp(latest, shared_package) = NoneOpt

\* C3 as stated: after a tick entered Running in which verify or unpack
\* failed, the updater task is still running (idle), Running, with the timeout
\* TIMEOUT_MS, and has sent nothing.
C3_RetryAfterFailedInstall ==
    (/\ log # <<>>
     /\ log[1] = <<"handle_timeout", "Running">>
     /\ log[Len(log)] \in {<<"verify", "Err">>, <<"unpack", "Err">>})
        => /\ pc = "idle"
           /\ status = "Running"
           /\ timeout = SomeMs(TIMEOUT_MS)
           /\ <<"send", "Update">> \notin Range(log)

C5_RunRestarts ==
    [][/\ (Handled(Run) /\ status = "Stopped") => status' = "Running"
       /\ pc' \in InTick => status' = "Running"]_vars

\* C6: handling a message other than Run leaves status as it was and sets the
\* timeout to None when Stopped and to TIMEOUT_MS when Running; a tick starts
\* only from a pending timeout; and a Stopped updater without timeout gets
\* one only by handling Run.
C6_OtherMessages ==
    [][/\ (Len(mailbox') < Len(mailbox) /\ Head(mailbox) # Run) =>
            /\ status' = status
            /\ timeout' = IF status = "Stopped" THEN None ELSE SomeMs(TIMEOUT_MS)
       /\ (pc = "idle" /\ pc' \in InTick) => timeout = SomeMs(TIMEOUT_MS)
       /\ (pc = "idle" /\ status = "Stopped" /\ timeout = None /\ timeout' # None)
            => Handled(Run)]_vars

\* C6 witness: a Stopped updater has handled Stop and has no timeout.
C6_Witness ==
    /\ log = <<<<"handle_cast", "Stop">>>>
    /\ status = "Stopped"
    /\ timeout = None
    /\ pc = "idle"

\* C7: the shared package changes only in the owner's step, which takes the
\* package of the Update it receives while no read guard is held and changes
\* nothing of the updater; every step of the updater leaves it as it is.
C7_UpdaterNeverWrites ==
    [][shared_package' # shared_package =>
          /\ outbox # <<>>
          /\ shared_package' = Head(outbox)[2]
          /\ outbox' = Tail(outbox)
          /\ readers = 0
          /\ UNCHANGED <<status, timeout, pc, latest, mailbox, log>>]_vars

\* C7 witness: the updater has installed and announced a newer package and
\* the shared package is still the older one.
C7_Witness ==
    /\ pc = "idle"
    /\ status = "Stopped"
    /\ outbox # <<>>
    /\ Head(outbox)[2] # shared_package
    /\ gt(Head(outbox)[2], shared_package)
    /\ <<"send", "Update">> \in Range(log)

-----------------------------------------------------------------------------
(* Package comparison *)

\* No version_sort call of the version specifications is made.
VersionsIdle ==
    /\ a_version = <<>>
    /\ b_version = <<>>
    /\ c_version = <<>>
    /\ sorted = NotRun

\* Versions of the compared packages: two of the grammar, and one that
\* version_sort rejects.
CmpVersions == {<<"1">>, <<"1", ".", "1">>, <<"a">>}

CmpPackages ==
    {Package(d, n, v, r) : d \in {"acme", "core"}, n \in {"web", "db"},
                           v \in CmpVersions, r \in {<<"1">>, <<"2">>}}

\* A call self.partial_cmp(other) on any two packages.
InitCmp ==
    /\ args \in [op : {"partial_cmp"}, self : CmpPackages, other : CmpPackages]
    /\ ret = NotCalled
    /\ fs = NoFs
    /\ UpdaterIdle
    /\ VersionsIdle

Compare ==
    /\ ~ret.done
    /\ args.op = "partial_cmp"
    /\ ret' = [done |-> TRUE, val |-> partial_cmp(args.self, args.other)]
    /\ UNCHANGED <<args, fs>>
    /\ UNCHANGED updaterVars
    /\ UNCHANGED versionVars

NextCmp == Compare

SpecCmp == InitCmp /\ [][NextCmp]_vars

\* Lexicographic order of two strings by their bytes, character by character.
RECURSIVE LexCompare(_, _)
LexCompare(s, t) ==
    IF s = <<>> /\ t = <<>> THEN "Equal"
    ELSE IF s = <<>> THEN "Less"
    ELSE IF t = <<>> THEN "Greater"
    ELSE IF Byte(Head(s)) < Byte(Head(t)) THEN "Less"
    ELSE IF Byte(Head(s)) > Byte(Head(t)) THEN "Greater"
    ELSE LexCompare(Tail(s), Tail(t))

\* What the comparison returns for equal names once version_sort has ordered
\* the versions, and that no derivation changes what it returns.
CmpByVersionThenRelease ==
    LET ord == version_sort(args.self.version, args.other.version)
    IN  /\ args.self.name = args.other.name /\ ord.ok /\ ord.val # "Equal"
            => ret.val = Some(ord.val)
        /\ args.self.name = args.other.name /\ ord.ok /\ ord.val = "Equal"
            => ret.val = Some(LexCompare(args.self.release, args.other.release))
        /\ \A d1, d2 \in {"acme", "core"} :
               partial_cmp([args.self EXCEPT !.derivation = d1],
                           [args.other EXCEPT !.derivation = d2]) = ret.val

\* C11 as stated: partial_cmp returns no ordering exactly when the two names
\* differ; for equal names it returns the version_sort result when that is
\* Less or Greater and the lexicographic comparison of the releases when the
\* versions compare Equal; the derivations never affect the result.
C11_NoOrderingIffNamesDiffer ==
    ret.done =>
        /\ ret.val = NoneOpt <=> args.self.name # args.other.name
        /\ CmpByVersionThenRelease

\* C11, amended: partial_cmp returns no ordering exactly when the two names
\* differ or version_sort fails on the two versions; for equal names and
\* versions version_sort orders, it returns the version_sort result when that
\* is Less or Greater and the lexicographic comparison of the releases when it
\* is Equal; the derivations never affect the result.
C11_NoOrderingIffIncomparable ==
    ret.done =>
        /\ ret.val = NoneOpt <=>
               \/ args.self.name # args.other.name
               \/ ~version_sort(args.self.version, args.other.version).ok
        /\ CmpByVersionThenRelease

\* C11 witness: two packages of one name and different derivations, one with
\* a version version_sort rejects, have been compared and have no ordering.
C11_Witness ==
    /\ ret.done
    /\ args.self.name = args.other.name
    /\ args.self.derivation # args.other.derivation
    /\ ~version_sort(args.self.version, args.other.version).ok
    /\ ret.val = NoneOpt

-----------------------------------------------------------------------------
(* Package identifiers *)

\* Longest identifier string parsed.
MaxIdentLen == 6

\* char::is_whitespace, on the characters used here.
IsWhitespace(c) == c \in {" ", "\n"}

\* str::trim: the string without its leading and trailing whitespace.
RECURSIVE trim(_)
trim(s) ==
    IF s = <<>> THEN s
    ELSE IF IsWhitespace(Head(s)) THEN trim(Tail(s))
    ELSE IF IsWhitespace(s[Len(s)]) THEN trim(SubSeq(s, 1, Len(s) - 1))
    ELSE s

\* Package::new: the four coordinates, and no dependencies.
new(deriv, name, version, release) ==
    [derivation |-> deriv, name |-> name, version |-> version,
     release |-> release, deps |-> NoneOpt]

\* ErrorKind::InvalidPackageIdent(id).
InvalidPackageIdent(id) == <<"InvalidPackageIdent", id>>

\* from_ident had it accepted the first four of more than four segments.
from_ident_at_least(id) ==
    LET items == Split(id, "/")
    IN  IF Len(items) >= 4
        THEN Ok(new(trim(items[1]), trim(items[2]), trim(items[3]), trim(items[4])))
        ELSE Err(InvalidPackageIdent(id))

\* Package::from_ident: split on "/", exactly four items, each trimmed.
from_ident(id) ==
    LET items == Split(id, "/")
    IN  IF Len(items) = 4
        THEN Ok(new(trim(items[1]), trim(items[2]), trim(items[3]), trim(items[4])))
        ELSE Err(InvalidPackageIdent(id))

\* Package::walk_releases: the package of four directory names, as they are.
walk_releases(derivation, name, version, release) ==
    new(derivation, name, version, release)

\* Identifier strings: slashes, spaces and a letter.
IdentStrings == UNION {[1..k -> {"/", " ", "a"}] : k \in 0..MaxIdentLen}

\* Names of directory entries: not empty and without a slash.
DirNames == {<<"a">>, <<" ", "a">>, <<"a", " ">>, <<" ">>}

\* A call from_ident(id) on any string, or the package walk_releases builds
\* from any four directory names.
InitIdent ==
    /\ args \in [op : {"from_ident"}, id : IdentStrings]
           \cup [op : {"walk_releases"}, derivation : DirNames, name : DirNames,
                 version : DirNames, release : DirNames]
    /\ ret = NotCalled
    /\ fs = NoFs
    /\ UpdaterIdle
    /\ VersionsIdle

FromIdent ==
    /\ ~ret.done
    /\ args.op = "from_ident"
    /\ ret' = [done |-> TRUE, val |-> from_ident(args.id)]
    /\ UNCHANGED <<args, fs>>
    /\ UNCHANGED updaterVars
    /\ UNCHANGED versionVars

WalkReleases ==
    /\ ~ret.done
    /\ args.op = "walk_releases"
    /\ ret' = [done |-> TRUE,
               val |-> Ok(walk_releases(args.derivation, args.name,
                                        args.version, args.release))]
    /\ UNCHANGED <<args, fs>>
    /\ UNCHANGED updaterVars
    /\ UNCHANGED versionVars

NextIdent == FromIdent \/ WalkReleases

SpecIdent == InitIdent /\ [][NextIdent]_vars

\* The four coordinates of a package.
Coordinates(package) ==
    {package.derivation, package.name, package.version, package.release}

\* C12: every package produced by from_ident or by the enumeration of the
\* installed-package tree has a non-empty derivation, name, version and
\* release, none of which starts or ends with whitespace.
C12_CoordinatesNonEmptyTrimmed ==
    ret.done /\ ret.val.ok =>
        \A f \in Coordinates(ret.val.val) :
            /\ f # <<>>
            /\ ~IsWhitespace(f[1])
            /\ ~IsWhitespace(f[Len(f)])

\* Positions of the slashes of a string, and the k-th segment between them.
SlashesOf(s) == {i \in 1..Len(s) : s[i] = "/"}

SegmentOf(s, k) ==
    LET before == {i \in SlashesOf(s) : Cardinality({j \in SlashesOf(s) : j <= i}) = k - 1}
        after  == {i \in SlashesOf(s) : Cardinality({j \in SlashesOf(s) : j <= i}) = k}
        first  == IF before = {} THEN 1 ELSE (CHOOSE i \in before : TRUE) + 1
        last   == IF after = {} THEN Len(s) ELSE (CHOOSE i \in after : TRUE) - 1
    IN  SubSeq(s, first, last)

\* A string without the whitespace before its first and after its last
\* character that is not whitespace.
Trimmed(s) ==
    LET solid == {i \in 1..Len(s) : ~IsWhitespace(s[i])}
    IN  IF solid = {} THEN <<>>
        ELSE SubSeq(s, CHOOSE i \in solid : \A j \in solid : i <= j,
                       CHOOSE i \in solid : \A j \in solid : i >= j)

\* C13: from_ident(s) succeeds exactly when s contains exactly 3 slashes, and
\* then the four fields are the four segments between them, trimmed, in
\* order, with no deps; for every other string it fails with
\* InvalidPackageIdent carrying s.
C13_FourSegments ==
    ret.done /\ args.op = "from_ident" =>
        IF Cardinality(SlashesOf(args.id)) = 3
        THEN /\ ret.val.ok
             /\ ret.val.val.derivation = Trimmed(SegmentOf(args.id, 1))
             /\ ret.val.val.name = Trimmed(SegmentOf(args.id, 2))
             /\ ret.val.val.version = Trimmed(SegmentOf(args.id, 3))
             /\ ret.val.val.release = Trimmed(SegmentOf(args.id, 4))
             /\ ret.val.val.deps = NoneOpt
        ELSE ret.val = Err(<<"InvalidPackageIdent", args.id>>)

\* C13 witness: an identifier of four segments, one of them with whitespace
\* around a letter, has been parsed into a package.
C13_Witness ==
    /\ ret.done
    /\ args.op = "from_ident"
    /\ Cardinality(SlashesOf(args.id)) = 3
    /\ \E k \in 1..4 : /\ SegmentOf(args.id, k) # Trimmed(SegmentOf(args.id, k))
                       /\ Trimmed(SegmentOf(args.id, k)) # <<>>
    /\ ret.val.ok

-----------------------------------------------------------------------------
(* Package::latest *)

\* Most packages in the installed-package tree.
MaxInstalled == 3

\* Packages the tree may hold: releases and versions of one name, a version
\* version_sort rejects, another name and another derivation.
Installable ==
    {new("acme", "web", <<"1">>, <<"1">>),
     new("acme", "web", <<"1">>, <<"2">>),
     new("acme", "web", <<"1", ".", "1">>, <<"1">>),
     new("acme", "web", <<"a">>, <<"1">>),
     new("acme", "db", <<"1">>, <<"1">>),
     new("core", "web", <<"1">>, <<"1">>)}

\* The directory of a package down to its derivation, name or version.
DirOf(package, depth) ==
    IF depth = 1 THEN <<package.derivation>>
    ELSE IF depth = 2 THEN <<package.derivation, package.name>>
    ELSE <<package.derivation, package.name, package.version>>

\* package_list: the walk goes through the directories one inside the other,
\* in the order read_dir gives, so every package is listed once and the
\* packages of one directory are listed together.
IsWalkOrder(pl) ==
    /\ \A i, j \in 1..Len(pl) : pl[i] = pl[j] => i = j
    /\ \A depth \in 1..3 : \A i, j, k \in 1..Len(pl) :
           i < j /\ j < k /\ DirOf(pl[i], depth) = DirOf(pl[k], depth)
               => DirOf(pl[j], depth) = DirOf(pl[i], depth)

PackageLists ==
    {pl \in UNION {[1..n -> Installable] : n \in 0..MaxInstalled} : IsWalkOrder(pl)}

\* ErrorKind::PackageNotFound(deriv, pkg, ver).
PackageNotFound(deriv, pkg, ver) == <<"PackageNotFound", deriv, pkg, ver>>

\* The closure given to filter: name and derivation, and the version if given.
filter(p, deriv, pkg, ver) ==
    IF ver.some
    THEN p.name = pkg /\ p.derivation = deriv /\ p.version = ver.val
    ELSE p.name = pkg /\ p.derivation = deriv

\* The fold had it kept the winner on Greater only.
RECURSIVE fold_keep_greater(_, _, _, _, _)
fold_keep_greater(winner, pl, deriv, pkg, ver) ==
    IF pl = <<>> THEN winner
    ELSE LET b == Head(pl)
             next == IF ~filter(b, deriv, pkg, ver) THEN winner
                     ELSE IF ~winner.some THEN Some(b)
                     ELSE IF partial_cmp(winner.val, b) = Some("Greater") THEN winner
                     ELSE Some(b)
         IN  fold_keep_greater(next, Tail(pl), deriv, pkg, ver)

\* pl.iter().filter(..).fold(None, ..): the packages that pass the filter, in
\* order; the first becomes the winner, and the next replaces the winner on
\* Less only.
RECURSIVE fold(_, _, _, _, _)
fold(winner, pl, deriv, pkg, ver) ==
    IF pl = <<>> THEN winner
    ELSE LET b == Head(pl)
             next == IF ~filter(b, deriv, pkg, ver) THEN winner
                     ELSE IF ~winner.some THEN Some(b)
                     ELSE IF partial_cmp(winner.val, b) = Some("Less") THEN Some(b)
                     ELSE winner
         IN  fold(next, Tail(pl), deriv, pkg, ver)

\* Package::latest had it returned the first package that passes the filter.
latest_in_first(deriv, pkg, ver, listed, pl) ==
    IF ~listed THEN Err(<<"Io">>)
    ELSE LET passing == {i \in 1..Len(pl) : filter(pl[i], deriv, pkg, ver)}
         IN  IF passing # {} THEN Ok(pl[Min(passing)])
             ELSE Err(PackageNotFound(deriv, pkg, ver))

\* Package::latest, given what package_list returned: its error, or the
\* winner of the fold, or PackageNotFound when the fold ends with None.
latest_in(deriv, pkg, ver, listed, pl) ==
    IF ~listed THEN Err(<<"Io">>)
    ELSE LET winner == fold(NoneOpt, pl, deriv, pkg, ver)
         IN  IF winner.some THEN Ok(winner.val)
             ELSE Err(PackageNotFound(deriv, pkg, ver))

\* A call Package::latest(deriv, pkg, ver, path) on any tree: one that
\* package_list cannot read, or one it lists.
InitLatest ==
    /\ args \in [op : {"latest"}, deriv : {"acme", "core"}, pkg : {"web", "db"},
                 ver : {NoneOpt, Some(<<"1">>)}, listed : {TRUE}, pl : PackageLists]
           \cup [op : {"latest"}, deriv : {"acme", "core"}, pkg : {"web", "db"},
                 ver : {NoneOpt, Some(<<"1">>)}, listed : {FALSE}, pl : {<<>>}]
    /\ ret = NotCalled
    /\ fs = NoFs
    /\ UpdaterIdle
    /\ VersionsIdle

Latest ==
    /\ ~ret.done
    /\ args.op = "latest"
    /\ ret' = [done |-> TRUE,
               val |-> latest_in(args.deriv, args.pkg, args.ver, args.listed, args.pl)]
    /\ UNCHANGED <<args, fs>>
    /\ UNCHANGED updaterVars
    /\ UNCHANGED versionVars

NextLatest == Latest

SpecLatest == InitLatest /\ [][NextLatest]_vars

\* A listed package matches the filter of the call.
Matching(p) ==
    /\ p.derivation = args.deriv
    /\ p.name = args.pkg
    /\ args.ver.some => p.version = args.ver.val

\* The winner among the first n listed packages: that among the first n - 1,
\* unless the n-th matches and there is no winner yet or the winner compares
\* Less to it.
RECURSIVE WinnerOfFirst(_)
WinnerOfFirst(n) ==
    IF n = 0 THEN NoneOpt
    ELSE LET winner == WinnerOfFirst(n - 1)
             candidate == args.pl[n]
         IN  IF ~Matching(candidate) THEN winner
             ELSE IF ~winner.some THEN Some(candidate)
             ELSE IF partial_cmp(winner.val, candidate) = Some("Less") THEN Some(candidate)
             ELSE winner

-----------------------------------------------------------------------------
(* Hooks *)

\* A file with its content, as a sequence of pieces written one after the
\* other, and a path where there is no file.
File(data) == [exists |-> TRUE, data |-> data]

Absent == [exists |-> FALSE, data |-> <<>>]

\* enum HookType.
HookType == {"health_check", "reconfigure", "run", "init"}

\* The content of a hook's template, what it renders to with the service
\* configuration, and what an earlier compile left at the hook's path.
TemplateData == <<"#!/bin/sh", "exec {{bin}}">>

RenderedData == <<"#!/bin/sh", "exec /bin/web">>

EarlierData == <<"#!/bin/sh", "exec /bin/old">>

\* The steps of compile that can fail.  With a context: loading the template,
\* rendering the configuration, the UTF-8 conversion, opening the path and
\* writing the data.  Without: fs::copy, before it creates the target or
\* while it copies.
CompileSteps(context) ==
    IF context THEN {"template", "toml", "utf8", "open", "write"}
    ELSE {"copy_open", "copy"}

\* The steps that fail once the path has been opened with truncate (or
\* created by fs::copy), after `written` pieces have gone through.
StepsAfterOpen == {"write", "copy"}

\* Hook::compile: every step is under try!, so the first failure returns;
\* the path is opened with truncate before the write, and fs::copy creates
\* its target before it copies.
compile(file, context, fail, written) ==
    LET data == IF context THEN RenderedData ELSE TemplateData
    IN  IF fail = "none" THEN [result |-> Ok(<<>>), file |-> File(data)]
        ELSE IF fail \in StepsAfterOpen
        THEN [result |-> Err(<<"compile", fail>>), file |-> File(SubSeq(data, 1, written))]
        ELSE [result |-> Err(<<"compile", fail>>), file |-> file]

\* What the subprocess of a hook does: whether Command::output launches it,
\* the exit code it reports if any, and what it writes.
ExitCodes == {0, 1, 2, 3, 4, 255}

NoCode == [some |-> FALSE, val |-> 0]

\* Bytes a subprocess writes, in pieces: text, or a byte that is not UTF-8.
InvalidUtf8 == "0xFF"

Outcomes ==
    [launched : {TRUE}, code : {Some(c) : c \in ExitCodes} \cup {NoCode},
     stdout : {<<>>, <<"out">>, <<InvalidUtf8>>}, stderr : {<<>>, <<"err">>, <<InvalidUtf8>>}]
    \cup [launched : {FALSE}, code : {NoCode}, stdout : {<<>>}, stderr : {<<>>}]

\* String::from_utf8: the text, or an error on a byte that is not UTF-8.
from_utf8(bytes) ==
    IF \E i \in 1..Len(bytes) : bytes[i] = InvalidUtf8 THEN Err(<<"FromUtf8Error">>)
    ELSE Ok(bytes)

\* String::from_utf8_lossy: the text, with U+FFFD for what is not UTF-8.
from_utf8_lossy(bytes) ==
    [i \in 1..Len(bytes) |-> IF bytes[i] = InvalidUtf8 THEN "U+FFFD" ELSE bytes[i]]

\* Hook::format_output: stdout, a newline, stderr, each converted lossily.
format_output(outcome) ==
    from_utf8_lossy(outcome.stdout) \o <<"\n">> \o from_utf8_lossy(outcome.stderr)

\* ErrorKind::HookFailed(htype, code, output).
HookFailed(htype, code, output) == <<"HookFailed", htype, code, output>>

\* Hook::run had it taken every reported exit code for a success.
run_any_code(file, htype, context, fail, written, outcome) ==
    LET compiled == compile(file, context, fail, written)
        output == format_output(outcome)
    IN  IF ~compiled.result.ok THEN compiled
        ELSE [file |-> compiled.file,
              result |->
                  IF ~outcome.launched
                  THEN Err(HookFailed(htype, -1, <<"couldn't run hook: ", "path">>))
                  ELSE IF outcome.code.some THEN Ok(output)
                  ELSE Err(HookFailed(htype, -1, output))]

\* Hook::run: compile under try!, then the subprocess: Some(0) is Ok(output),
\* Some(code) is HookFailed with the code, None and a failed launch are
\* HookFailed with -1.
hook_run(file, htype, context, fail, written, outcome) ==
    LET compiled == compile(file, context, fail, written)
        output == format_output(outcome)
    IN  IF ~compiled.result.ok THEN compiled
        ELSE [file |-> compiled.file,
              result |->
                  IF ~outcome.launched
                  THEN Err(HookFailed(htype, -1, <<"couldn't run hook: ", "path">>))
                  ELSE IF outcome.code = Some(0) THEN Ok(output)
                  ELSE IF outcome.code.some
                  THEN Err(HookFailed(htype, outcome.code.val, output))
                  ELSE Err(HookFailed(htype, -1, output))]

-----------------------------------------------------------------------------
(* Package::signal *)

\* enum Signal.
Signal ==
    {"Status", "Up", "Down", "Once", "Pause", "Cont", "Hup", "Alarm", "Interrupt",
     "Quit", "One", "Two", "Term", "Kill", "Exit", "Start", "Stop", "Reload",
     "Restart", "Shutdown", "ForceStop", "ForceReload", "ForceRestart",
     "ForceShutdown", "TryRestart"}

\* What the supervisor side does on a signal: whether latest finds the runit
\* package, whether Command::output launches bin/sv, whether sv exits with
\* success, and the bytes it writes.
Supervisions ==
    [runit : BOOLEAN, launched : {TRUE}, success : BOOLEAN,
     stdout : {<<"run: web">>, <<InvalidUtf8>>}, stderr : {<<>>, <<InvalidUtf8>>}]
    \cup [runit : BOOLEAN, launched : {FALSE}, success : {FALSE},
          stdout : {<<>>}, stderr : {<<>>}]

\* Package::signal had it tolerated the failure of every forced signal.
signal_force_any(kind, sv) ==
    IF ~sv.runit THEN Err(PackageNotFound("chef", "runit", NoneOpt))
    ELSE IF ~sv.launched THEN Err(<<"Io">>)
    ELSE IF sv.success THEN from_utf8(sv.stdout)
    ELSE IF kind \in {"ForceStop", "ForceReload", "ForceRestart", "ForceShutdown"}
    THEN from_utf8(sv.stdout)
    ELSE IF ~from_utf8(sv.stdout).ok THEN from_utf8(sv.stdout)
    ELSE IF ~from_utf8(sv.stderr).ok THEN from_utf8(sv.stderr)
    ELSE Err(<<"SupervisorSignalFailed">>)

\* Package::signal: latest and Command::output under try!; on success the
\* stdout; on failure the stdout for ForceShutdown, and otherwise
\* SupervisorSignalFailed once stdout and stderr are converted for the log.
signal(kind, sv) ==
    IF ~sv.runit THEN Err(PackageNotFound("chef", "runit", NoneOpt))
    ELSE IF ~sv.launched THEN Err(<<"Io">>)
    ELSE IF sv.success THEN from_utf8(sv.stdout)
    ELSE IF kind = "ForceShutdown" THEN from_utf8(sv.stdout)
    ELSE IF ~from_utf8(sv.stdout).ok THEN from_utf8(sv.stdout)
    ELSE IF ~from_utf8(sv.stderr).ok THEN from_utf8(sv.stderr)
    ELSE Err(<<"SupervisorSignalFailed">>)

-----------------------------------------------------------------------------
(* Package::health_check *)

\* health_check::CheckResult.
CheckResult(level, output) == [status |-> level, output |-> output]

\* ErrorKind::HealthCheck("hook exited code={}, output={}").
HealthCheck(code, output) ==
    <<"HealthCheck", "hook exited code=", code, ", output=", output>>

\* What last_config reads from config.toml, or its failure.
LastConfigs == {Ok(<<"port = 80">>), Err(<<"Io">>)}

\* The match on the hook's result had it no arm for code 3.
check_of_no_unknown(ran) ==
    IF ran.ok THEN Ok(CheckResult("Ok", ran.val))
    ELSE IF ran.val[1] # "HookFailed" THEN ran
    ELSE IF ran.val[3] = 1 THEN Ok(CheckResult("Warning", ran.val[4]))
    ELSE IF ran.val[3] = 2 THEN Ok(CheckResult("Critical", ran.val[4]))
    ELSE Err(HealthCheck(ran.val[3], ran.val[4]))

\* The match of health_check on what hook.run returned.
check_of(ran) ==
    IF ran.ok THEN Ok(CheckResult("Ok", ran.val))
    ELSE IF ran.val[1] # "HookFailed" THEN ran
    ELSE IF ran.val[3] = 1 THEN Ok(CheckResult("Warning", ran.val[4]))
    ELSE IF ran.val[3] = 2 THEN Ok(CheckResult("Critical", ran.val[4]))
    ELSE IF ran.val[3] = 3 THEN Ok(CheckResult("Unknown", ran.val[4]))
    ELSE Err(HealthCheck(ran.val[3], ran.val[4]))

\* Package::health_check: with a health_check hook, the hook is run with the
\* configuration and its result matched; without, the Status signal and
\* last_config, both under try!.
health_check(file, has_hook, fail, written, outcome, sv, config) ==
    IF has_hook
    THEN LET ran == hook_run(file, "health_check", TRUE, fail, written, outcome)
         IN  [file |-> ran.file, result |-> check_of(ran.result)]
    ELSE LET status_output == signal("Status", sv)
         IN  [file |-> file,
              result |->
                  IF ~status_output.ok THEN status_output
                  ELSE IF ~config.ok THEN config
                  ELSE Ok(CheckResult("Ok", status_output.val \o <<"\n">> \o config.val))]

-----------------------------------------------------------------------------
(* Calls of Hook::compile, Hook::run and Package::health_check *)

\* How a compile goes: with or without a context, the step that fails if any,
\* and the pieces written when the failure comes after the open.
Compilations ==
    {k \in [context : BOOLEAN,
            fail : CompileSteps(TRUE) \cup CompileSteps(FALSE) \cup {"none"},
            written : 0..(Len(RenderedData) - 1)] :
        /\ k.fail = "none" \/ k.fail \in CompileSteps(k.context)
        /\ k.fail \notin StepsAfterOpen => k.written = 0}

\* The supervisor and the configuration file when all goes well, and a hook
\* that exits 0, for the calls that do not reach them.
Supervised ==
    [runit |-> TRUE, launched |-> TRUE, success |-> TRUE,
     stdout |-> <<"run: web">>, stderr |-> <<>>]

Exited0 == [launched |-> TRUE, code |-> Some(0), stdout |-> <<>>, stderr |-> <<>>]

\* A call of compile, of run, or of health_check with or without a
\* health_check hook, on a hook path that holds nothing, an earlier compiled
\* hook, or the very content about to be written.
InitHook ==
    /\ args \in [op : {"compile"}, how : Compilations]
           \cup [op : {"run"}, htype : HookType, how : Compilations, outcome : Outcomes]
           \cup [op : {"health_check"}, has_hook : {TRUE},
                 how : {k \in Compilations : k.context}, outcome : Outcomes,
                 sv : {Supervised}, config : {Ok(<<"port = 80">>)}]
           \cup [op : {"health_check"}, has_hook : {FALSE},
                 how : {k \in Compilations : k.context /\ k.fail = "none"},
                 outcome : {Exited0}, sv : Supervisions, config : LastConfigs]
    /\ ret = NotCalled
    /\ fs \in [compiled : {Absent, File(EarlierData), File(RenderedData)}]
    /\ UpdaterIdle
    /\ VersionsIdle

Compile ==
    /\ ~ret.done
    /\ args.op = "compile"
    /\ LET r == compile(fs.compiled, args.how.context, args.how.fail, args.how.written)
       IN  /\ ret' = [done |-> TRUE, val |-> r.result, before |-> fs.compiled]
           /\ fs' = [compiled |-> r.file]
    /\ UNCHANGED args
    /\ UNCHANGED updaterVars
    /\ UNCHANGED versionVars

HookRun ==
    /\ ~ret.done
    /\ args.op = "run"
    /\ LET r == hook_run(fs.compiled, args.htype, args.how.context, args.how.fail,
                         args.how.written, args.outcome)
       IN  /\ ret' = [done |-> TRUE, val |-> r.result, before |-> fs.compiled]
           /\ fs' = [compiled |-> r.file]
    /\ UNCHANGED args
    /\ UNCHANGED updaterVars
    /\ UNCHANGED versionVars

HealthCheckCall ==
    /\ ~ret.done
    /\ args.op = "health_check"
    /\ LET r == health_check(fs.compiled, args.has_hook, args.how.fail,
                             args.how.written, args.outcome, args.sv, args.config)
       IN  /\ ret' = [done |-> TRUE, val |-> r.result, before |-> fs.compiled]
           /\ fs' = [compiled |-> r.file]
    /\ UNCHANGED args
    /\ UNCHANGED updaterVars
    /\ UNCHANGED versionVars

NextHook == Compile \/ HookRun \/ HealthCheckCall

SpecHook == InitHook /\ [][NextHook]_vars

\* The hook was compiled and its subprocess ran to an exit with a code.
ExitedWith(c) ==
    /\ args.how.fail = "none"
    /\ args.outcome.launched
    /\ args.outcome.code = Some(c)

\* What the subprocess wrote: its stdout, a newline, its stderr, with U+FFFD
\* in place of what is not UTF-8.
Captured ==
    LET text(bytes) == [i \in 1..Len(bytes) |->
                           IF bytes[i] = InvalidUtf8 THEN "U+FFFD" ELSE bytes[i]]
    IN  text(args.outcome.stdout) \o <<"\n">> \o text(args.outcome.stderr)

\* C15: Hook.run succeeds, returning the captured output (stdout, newline,
\* stderr), exactly when the compiled hook's subprocess exits with code 0; an
\* exit with another code c fails with HookFailed(hook_type, c, output); a
\* subprocess that reports no code or cannot be launched fails with
\* HookFailed(hook_type, -1, ...).
C15_RunByExitCode ==
    ret.done /\ args.op = "run" =>
        /\ ret.val.ok <=> ExitedWith(0)
        /\ ret.val.ok => ret.val.val = Captured
        /\ \A c \in ExitCodes \ {0} :
               ExitedWith(c) => ret.val = Err(<<"HookFailed", args.htype, c, Captured>>)
        /\ args.how.fail = "none" /\ args.outcome.launched /\ ~args.outcome.code.some
               => ret.val = Err(<<"HookFailed", args.htype, -1, Captured>>)
        /\ args.how.fail = "none" /\ ~args.outcome.launched
               => /\ ~ret.val.ok
                  /\ SubSeq(ret.val.val, 1, 3) = <<"HookFailed", args.htype, -1>>

\* C15 witness: a run hook has been compiled and run, its subprocess has
\* exited with code 2 after writing to stdout and stderr, and run has failed.
C15_Witness ==
    /\ ret.done
    /\ args.op = "run"
    /\ args.htype = "run"
    /\ ExitedWith(2)
    /\ args.outcome.stdout = <<"out">>
    /\ args.outcome.stderr = <<"err">>
    /\ ~ret.val.ok
    /\ fs.compiled = File(RenderedData)

\* C16: on every exit path of compile the hook's path holds either all of the
\* new content or exactly what it held before the call; a failed compile
\* leaves no truncated or partly written file.
C16_NoPartialFile ==
    ret.done /\ (args.op = "health_check" => args.has_hook) =>
        \/ fs.compiled = ret.before
        \/ fs.compiled = File(IF args.how.context THEN RenderedData ELSE TemplateData)

\* The supervisor has answered the signal with success and with text.
Answered ==
    /\ args.sv.runit
    /\ args.sv.launched
    /\ args.sv.success
    /\ \A i \in 1..Len(args.sv.stdout) : args.sv.stdout[i] # InvalidUtf8

-----------------------------------------------------------------------------
(* Package::copy_run *)

\* Most calls of copy_run in a row.
MaxCalls == 2

\* What is at the service's run path: nothing, a regular file, or a symbolic
\* link to the compiled run hook, to the package's run file or elsewhere.
Missing == [kind |-> "missing", target |-> ""]

Regular == [kind |-> "regular", target |-> ""]

Symlink(target) == [kind |-> "symlink", target |-> target]

RunPaths == {Missing, Regular} \cup {Symlink(t) : t \in {"hook", "run", "other"}}

\* fs::metadata follows a link: it fails on nothing and on a link to the
\* compiled hook when that file does not exist.
metadata_ok(files) ==
    \/ files.srvc_run.kind = "regular"
    \/ /\ files.srvc_run.kind = "symlink"
       /\ files.srvc_run.target = "hook" => files.compiled.exists

\* unix::fs::symlink: fails when something is at the link's path.
symlink(files, target, muts) ==
    IF files.srvc_run.kind = "missing"
    THEN [result |-> Ok(<<>>), files |-> [files EXCEPT !.srvc_run = Symlink(target)],
          muts |-> muts \o <<"symlink">>]
    ELSE [result |-> Err(<<"Io">>), files |-> files, muts |-> muts]

\* Package::copy_run, with the file-system changes it makes in order.  With a
\* run hook: compile, then the link is replaced if it points elsewhere and
\* made if read_link fails.  Without: the run file's permissions are set, what
\* is at the path is removed if metadata succeeds, and the link is made.
copy_run(files, has_hook, fail, written) ==
    IF has_hook
    THEN LET compiled == compile(files.compiled, TRUE, fail, written)
             opened == fail \in StepsAfterOpen \cup {"none"}
             after == [files EXCEPT !.compiled = compiled.file]
             muts == IF opened THEN <<"write hook">> ELSE <<>>
         IN  IF ~compiled.result.ok
             THEN [result |-> compiled.result, files |-> after, muts |-> muts]
             ELSE IF files.srvc_run.kind = "symlink"
             THEN IF files.srvc_run.target # "hook"
                  THEN symlink([after EXCEPT !.srvc_run = Missing], "hook",
                               muts \o <<"chmod hook", "remove_file">>)
                  ELSE [result |-> Ok(<<>>), files |-> after, muts |-> muts]
             ELSE symlink(after, "hook", muts)
    ELSE IF metadata_ok(files)
         THEN symlink([files EXCEPT !.srvc_run = Missing], "run",
                      <<"chmod run", "remove_file">>)
         ELSE symlink(files, "run", <<"chmod run">>)

\* Calls of copy_run, one after the other, for a package with or without a
\* run hook template, from any state of the run path and the compiled hook.
InitCopyRun ==
    /\ args \in [op : {"copy_run"}, has_hook : BOOLEAN]
    /\ ret = [done |-> FALSE, calls |-> 0]
    /\ fs \in [compiled : {Absent, File(EarlierData), File(RenderedData)},
               srvc_run : RunPaths]
    /\ UpdaterIdle
    /\ VersionsIdle

CopyRun ==
    /\ args.op = "copy_run"
    /\ ret.calls < MaxCalls
    /\ \E how \in {k \in Compilations : k.context} :
           /\ args.has_hook \/ how.fail = "none"
           /\ LET r == copy_run(fs, args.has_hook, how.fail, how.written)
              IN  /\ ret' = [done |-> TRUE, calls |-> ret.calls + 1, val |-> r.result,
                             muts |-> r.muts, before |-> fs]
                  /\ fs' = r.files
    /\ UNCHANGED args
    /\ UNCHANGED updaterVars
    /\ UNCHANGED versionVars

NextCopyRun == CopyRun

SpecCopyRun == InitCopyRun /\ [][NextCopyRun]_vars

\* The target the run link is to point at.
CorrectTarget == IF args.has_hook THEN "hook" ELSE "run"

\* C18: copy_run rewrites the run link only if it does not already point at
\* the correct target: a second call, on a link the first call left pointing
\* at the unchanged target, changes nothing in the file system (no removal or
\* re-creation of the link, no rewrite of a file).
C18_SecondCallTouchesNothing ==
    /\ ret.done
    /\ ret.calls = 2
    /\ ret.before.srvc_run = Symlink(CorrectTarget)
    => /\ ret.muts = <<>>
       /\ fs = ret.before

-----------------------------------------------------------------------------
(* PackageArchive::package *)

\* Most lines in a DEPS metafile.
MaxDepLines == 3

\* ErrorKind::MetaFileNotFound(file) and ErrorKind::ArchiveReadFailed(stderr),
\* the two failures of read_metadata on a decrypted archive.
MetaFileNotFound(file) == <<"MetaFileNotFound", file>>

ArchiveReadFailed == <<"ArchiveReadFailed", "tar: error">>

\* Package::add_dep: push on the deps, or start them.
add_dep(package, dep) ==
    IF package.deps.some
    THEN [package EXCEPT !.deps = Some(Append(package.deps.val, dep))]
    ELSE [package EXCEPT !.deps = Some(<<dep>>)]

\* The loops over the dependency strings and over the dependencies.
RECURSIVE deps_of_strs(_)
deps_of_strs(dep_strs) ==
    IF dep_strs = <<>> THEN <<>>
    ELSE LET parsed == from_ident(Head(dep_strs))
         IN  IF parsed.ok THEN <<parsed.val>> \o deps_of_strs(Tail(dep_strs))
             ELSE deps_of_strs(Tail(dep_strs))

RECURSIVE add_deps(_, _)
add_deps(package, deps) ==
    IF deps = <<>> THEN package
    ELSE add_deps(add_dep(package, Head(deps)), Tail(deps))

\* deps had it failed on the first line that is not an identifier.
deps_strict(read) ==
    IF read.ok
    THEN LET dep_strs == Split(read.val, "\n")
         IN  IF \E i \in 1..Len(dep_strs) : ~from_ident(dep_strs[i]).ok
             THEN Err(InvalidPackageIdent(read.val))
             ELSE Ok(Some(deps_of_strs(dep_strs)))
    ELSE IF read.val[1] = "MetaFileNotFound" THEN Ok(NoneOpt)
    ELSE read

\* PackageArchive::deps, given what read_metadata(Deps) returned: the lines
\* that parse, None when the metafile is not in the archive, or the error.
deps(read) ==
    IF read.ok THEN Ok(Some(deps_of_strs(Split(read.val, "\n"))))
    ELSE IF read.val[1] = "MetaFileNotFound" THEN Ok(NoneOpt)
    ELSE read

\* PackageArchive::package, given what read_metadata returned for Ident and
\* for Deps.
package(ident_read, deps_read) ==
    IF ~ident_read.ok THEN ident_read
    ELSE LET parsed == from_ident(ident_read.val)
             found == deps(deps_read)
         IN  IF ~parsed.ok THEN parsed
             ELSE IF ~found.ok THEN found
             ELSE IF found.val.some THEN Ok(add_deps(parsed.val, found.val.val))
             ELSE Ok(parsed.val)

\* The lines of a metafile, one after the other with a newline between.
RECURSIVE Join(_)
Join(lines) ==
    IF lines = <<>> THEN <<>>
    ELSE IF Len(lines) = 1 THEN lines[1]
    ELSE lines[1] \o <<"\n">> \o Join(Tail(lines))

\* IDENT metafiles: an identifier, one ending in a newline, and one of three
\* segments.
IdentBodies ==
    {<<"a", "/", "w", "/", "1", "/", "2">>,
     <<"a", "/", "w", "/", "1", "/", "2", "\n">>,
     <<"a", "/", "w", "/", "1">>}

\* Lines of a DEPS metafile: two identifiers, one with spaces around it, and
\* three lines that are none: one segment, five segments, and the empty line.
DepLines ==
    {<<"a", "/", "d", "/", "1", "/", "2">>,
     <<" ", "a", "/", "e", "/", "1", "/", "2", " ">>,
     <<"d">>,
     <<"a", "/", "d", "/", "1", "/", "2", "/", "3">>,
     <<>>}

\* A call package() on any archive: an IDENT read or not, and a DEPS that is
\* read, not in the archive, or not readable.
InitArchive ==
    /\ args \in [op : {"package"},
                 ident : {Ok(b) : b \in IdentBodies}
                             \cup {Err(MetaFileNotFound("IDENT")), Err(ArchiveReadFailed)},
                 deps : {Err(MetaFileNotFound("DEPS")), Err(ArchiveReadFailed)},
                 lines : {<<>>}]
           \cup {[op |-> "package", ident |-> Ok(b), deps |-> Ok(Join(l)), lines |-> l] :
                    b \in IdentBodies,
                    l \in UNION {[1..n -> DepLines] : n \in 1..MaxDepLines}}
    /\ ret = NotCalled
    /\ fs = NoFs
    /\ UpdaterIdle
    /\ VersionsIdle

ArchivePackage ==
    /\ ~ret.done
    /\ args.op = "package"
    /\ ret' = [done |-> TRUE, val |-> package(args.ident, args.deps)]
    /\ UNCHANGED <<args, fs>>
    /\ UNCHANGED updaterVars
    /\ UNCHANGED versionVars

NextArchive == ArchivePackage

SpecArchive == InitArchive /\ [][NextArchive]_vars

\* A line with exactly three slashes, and the package it names.
WellFormed(line) == Cardinality(SlashesOf(line)) = 3

Named(line) ==
    [derivation |-> Trimmed(SegmentOf(line, 1)), name |-> Trimmed(SegmentOf(line, 2)),
     version |-> Trimmed(SegmentOf(line, 3)), release |-> Trimmed(SegmentOf(line, 4)),
     deps |-> NoneOpt]

\* The packages the well-formed lines name, in the order of the lines.
RECURSIVE NamedBy(_)
NamedBy(lines) ==
    IF lines = <<>> THEN <<>>
    ELSE IF WellFormed(Head(lines)) THEN <<Named(Head(lines))>> \o NamedBy(Tail(lines))
    ELSE NamedBy(Tail(lines))

\* The deps of a package, as a sequence.
DepsOf(p) == IF p.deps.some THEN p.deps.val ELSE <<>>

-----------------------------------------------------------------------------
(* Calls of Package::signal *)

\* A call signal(kind) of any kind, with the supervisor doing anything.
InitSignal ==
    /\ args \in [op : {"signal"}, kind : Signal, sv : Supervisions]
    /\ ret = NotCalled
    /\ fs = NoFs
    /\ UpdaterIdle
    /\ VersionsIdle

SendSignal ==
    /\ ~ret.done
    /\ args.op = "signal"
    /\ ret' = [done |-> TRUE, val |-> signal(args.kind, args.sv)]
    /\ UNCHANGED <<args, fs>>
    /\ UNCHANGED updaterVars
    /\ UNCHANGED versionVars

NextSignal == SendSignal

SpecSignal == InitSignal /\ [][NextSignal]_vars

\* The control binary was found and launched, and has exited.
SvExited == args.sv.runit /\ args.sv.launched

\* Bytes that are UTF-8 text.
IsText(bytes) == \A i \in 1..Len(bytes) : bytes[i] # InvalidUtf8

\* C20 as stated: when the supervisor control binary exits non-zero, signal
\* succeeds with the binary's stdout if the kind is ForceShutdown and fails
\* with SupervisorSignalFailed for every other kind; when it exits zero,
\* signal succeeds with the stdout for every kind.
C20_ForceShutdownTolerated ==
    ret.done /\ SvExited =>
        IF args.sv.success \/ args.kind = "ForceShutdown"
        THEN ret.val = Ok(args.sv.stdout)
        ELSE ret.val = Err(<<"SupervisorSignalFailed">>)

\* C20, amended: the same, for a control binary whose stdout (and, on a
\* failure that is not tolerated, stderr) is UTF-8; otherwise signal fails
\* with the error of the conversion, whatever the kind and the exit status.
C20_ForceShutdownToleratedText ==
    ret.done /\ SvExited =>
        IF args.sv.success \/ args.kind = "ForceShutdown"
        THEN IF IsText(args.sv.stdout) THEN ret.val = Ok(args.sv.stdout)
             ELSE ret.val = Err(<<"FromUtf8Error">>)
        ELSE IF IsText(args.sv.stdout) /\ IsText(args.sv.stderr)
             THEN ret.val = Err(<<"SupervisorSignalFailed">>)
             ELSE ret.val = Err(<<"FromUtf8Error">>)

\* C20 witness: the control binary has exited non-zero on ForceShutdown with
\* text on stdout, and signal has returned that text.
C20_Witness ==
    /\ ret.done
    /\ SvExited
    /\ ~args.sv.success
    /\ args.kind = "ForceShutdown"
    /\ IsText(args.sv.stdout)
    /\ ret.val = Ok(args.sv.stdout)

-----------------------------------------------------------------------------
(* Package::latest over any enumeration order *)

\* Versions of the packages of one name: ordered ones, two that compare Equal
\* ("1" and "1.0"), one with an extension, and ones version_sort rejects
\* against some versions only ("1." has an empty second component) or against
\* all ("a").
OrderVersions ==
    {<<"1">>, <<"1", ".", "0">>, <<"1", ".", "1">>, <<"1", ".">>, <<"0", ".">>,
     <<"1", "-", "a">>, <<"a">>}

\* The packages of acme/web the tree may hold, and one of another name.
Orderable ==
    {new("acme", "web", v, r) : v \in OrderVersions, r \in {<<"1">>, <<"2">>}}
        \cup {new("acme", "db", <<"1">>, <<"1">>)}

\* A call Package::latest("acme", "web", ver, path) on a tree listed in any
\* order the walk can give.
InitLatestOrder ==
    /\ args \in [op : {"latest"}, deriv : {"acme"}, pkg : {"web"},
                 ver : {NoneOpt, Some(<<"1">>)}, listed : {TRUE},
                 pl : {pl \in UNION {[1..n -> Orderable] : n \in 0..MaxInstalled} :
                          IsWalkOrder(pl)}]
    /\ ret = NotCalled
    /\ fs = NoFs
    /\ UpdaterIdle
    /\ VersionsIdle

SpecLatestOrder == InitLatestOrder /\ [][NextLatest]_vars

\* C21: whenever latest succeeds, the package it returns is a listed package
\* that matches the filter, and no listed package that matches is strictly
\* greater than it under partial_cmp, in whatever order the walk lists them.
C21_ResultMaximal ==
    ret.done /\ ret.val.ok =>
        /\ \E i \in 1..Len(args.pl) : args.pl[i] = ret.val.val /\ Matching(args.pl[i])
        /\ \A i \in 1..Len(args.pl) :
               Matching(args.pl[i])
                   => partial_cmp(args.pl[i], ret.val.val) # Some("Greater")

\* C21 witness: of three matching packages the first has been returned; it
\* has no ordering with the second and is greater than the third, and the
\* same packages listed the other way round give another package.
C21_Witness ==
    /\ ret.done
    /\ Len(args.pl) = 3
    /\ \A i \in 1..3 : Matching(args.pl[i])
    /\ ret.val = Ok(args.pl[1])
    /\ partial_cmp(args.pl[1], args.pl[2]) = NoneOpt
    /\ partial_cmp(args.pl[1], args.pl[3]) = Some("Greater")
    /\ latest_in(args.deriv, args.pkg, args.ver, TRUE,
                 <<args.pl[3], args.pl[2], args.pl[1]>>) # ret.val

-----------------------------------------------------------------------------
(* The read guard of the tick handler *)

\* The step sends a message to the owner.
Sends == Len(outbox') = Len(outbox) + 1

\* C22: every Update(p) the updater sends carries a package p strictly
\* greater than the shared package at the moment of sending: from the read of
\* the coordinates until the tick handler returns the updater holds the read
\* guard, and no step in between changes the shared package.
C22_UpdateGreaterAtSend ==
    [][/\ pc \in InTick => readers >= 1 /\ shared_package' = shared_package
       /\ Sends => /\ pc \in InTick
                   /\ outbox'[Len(outbox')][1] = "Update"
                   /\ gt(outbox'[Len(outbox')][2], shared_package)
                   /\ gt(outbox'[Len(outbox')][2], shared_package')]_vars

\* C22 witness: a second Update has been sent while the first was still
\* waiting for the owner, who could not promote it during the tick; both
\* carry a package greater than the shared one.
C22_Witness ==
    /\ pc = "idle"
    /\ readers = 0
    /\ Len(outbox) = 2
    /\ <<"send", "Update">> \in Range(log)
    /\ gt(outbox[1][2], shared_package)
    /\ gt(outbox[2][2], shared_package)

-----------------------------------------------------------------------------
(* The timer of a Running updater *)

\* The actor fires a pending timeout once no message has come for
\* TIMEOUT_MS: a tick that stays possible is taken.
FairSpec == Spec /\ WF_vars(handle_timeout)

\* C23: after init and after every handler, of a tick or of a message, has
\* returned, a Running updater has its timer armed; and a Running updater
\* that waits goes on to another poll.
C23_RunningIsArmed ==
    /\ [](pc = "idle" /\ status = "Running" => timeout = SomeMs(TIMEOUT_MS))
    /\ (pc = "idle" /\ status = "Running") ~> (pc = "show")

\* C23 witness: a Running updater has handled a message that is not Run after
\* a tick that found nothing newer, and waits with its timer armed.
C23_Witness ==
    /\ pc = "idle"
    /\ status = "Running"
    /\ log = <<<<"handle_cast", "Stop">>>>
    /\ timeout = SomeMs(TIMEOUT_MS)
    /\ latest # NoPackage

====
